---- MODULE Spec2Model ----
(***************************************************************************)
(* klepto2: a scanner that pulls container images, extracts their layers,  *)
(* runs a file-pattern scan and two secret detectors on the extracted tree *)
(* and writes one JSON artifact per image (src/klepto2.py).                *)
(*                                                                         *)
(* The model follows Klepto2.run (mode resolution, deduplication, the      *)
(* ThreadPoolExecutor fan-out, the as_completed loop) and, per submitted   *)
(* future, Klepto2.process_image stage by stage.  The external             *)
(* collaborators (Docker Hub, skopeo, tar, trufflehog, gitleaks, the file  *)
(* system under OUTPUT_DIR) answer nondeterministically from bounded pools *)
(* of outcomes.                                                            *)
(*                                                                         *)
(* Strings that the code inspects character by character (image names,    *)
(* tags, secrets, file names) are sequences of one-character strings.      *)
(***************************************************************************)
EXTENDS Integers, Sequences, FiniteSets, TLC

VARIABLES
    mode,          \* run(inputs, mode): "search" | "image" | "mixed"
    inputs,        \* run(inputs, mode): the inputs the resolution loop has not visited yet
    max_workers,   \* Config.MAX_WORKERS as configured for this run
    search_call,   \* run's resolution loop: how many searches it made, the last term and what was found
    runpc,         \* position of the main thread inside run
    image_names,   \* run's local list image_names; from line 562 on, the part of it not submitted yet
    resolved,      \* history: the names image_names held when line 547 deduplicated it
    repeated,      \* history: those of them it held more than once
    queue,         \* the executor's work queue: the submitted calls no worker has picked up
    task,          \* per submitted name: its future and process_image invocation (position, locals, result)
    collected,     \* futures the as_completed loop has taken the result of
    logged,        \* futures whose exception line 570 has logged
    outdir,        \* Config.OUTPUT_DIR: artifact path -> content
    writes         \* history: <<future, path>> for every artifact write, in order

vars == <<mode, inputs, max_workers, search_call, runpc, image_names, resolved, repeated,
          queue, task, collected, logged, outdir, writes>>

----------------------------------------------------------------------------
(* Bounds of the model *)

\* longest input list handed to run
MaxInputs == 2

\* largest worker-pool width tried
MaxWidth == 2

----------------------------------------------------------------------------
(* Character strings *)

latest == <<"l", "a", "t", "e", "s", "t">>
v1 == <<"v", "1">>
v2 == <<"v", "2">>

\* image names used as inputs and as search results
u_app == <<"u", "/", "a", "p", "p">>
u_app_latest == <<"u", "/", "a", "p", "p", ":", "l", "a", "t", "e", "s", "t">>
uapp_latest == <<"u", "_", "a", "p", "p", ":", "l", "a", "t", "e", "s", "t">>
nginx == <<"n", "g", "i", "n", "x">>
nginx_latest == <<"n", "g", "i", "n", "x", ":", "l", "a", "t", "e", "s", "t">>
registry_app == <<"r", ".", "i", "o", "/", "a", "p", "p">>

\* c in s
HasChar(s, c) == \E k \in 1..Len(s) : s[k] = c

\* s.split("/")[0]
FirstSegment(s) ==
    IF HasChar(s, "/")
    THEN SubSeq(s, 1, (CHOOSE k \in 1..Len(s) : s[k] = "/" /\ \A j \in 1..(k-1) : s[j] # "/") - 1)
    ELSE s

\* len(name.split("/")) > 1 and "." in name.split("/")[0]
is_custom_registry(name) == HasChar(name, "/") /\ HasChar(FirstSegment(name), ".")

\* image_name.replace("/", "_").replace(":", "_")
safe_name(name) == [k \in 1..Len(name) |-> IF name[k] \in {"/", ":"} THEN "_" ELSE name[k]]

\* os.path.join(Config.OUTPUT_DIR, f"results_{safe_name}.json")
output_file(name) ==
    <<"r", "e", "s", "u", "l", "t", "s", "_">> \o safe_name(name) \o <<".", "j", "s", "o", "n">>

----------------------------------------------------------------------------
(* HubClient *)

\* What the tags endpoint can answer: an error (requests raises, or a status
\* raise_for_status rejects), a 404, or a page of tag names.
TagError == [status |-> "error", results |-> <<>>]
TagNotFound == [status |-> "404", results |-> <<>>]
TagPage(names) == [status |-> "200", results |-> names]

\* no request was made
NotAsked == [status |-> "none", results |-> <<>>]

\* "no tag": get_best_tag's None
NoTag == <<>>

\* a lookup that takes the first tag of the page, whatever the others are
get_first_tag(resp) ==
    IF resp.status # "200" \/ resp.results = <<>> THEN NoTag ELSE resp.results[1]

\* HubClient.get_best_tag, from the response on
get_best_tag(resp) ==
    IF resp.status # "200" THEN NoTag
    ELSE IF resp.results = <<>> THEN NoTag
    ELSE IF \E k \in 1..Len(resp.results) : resp.results[k] = latest THEN latest
    ELSE resp.results[1]

\* process_image lines 418-431: the name with its tag resolved.  resp is the
\* answer the tags endpoint would give; it is consulted only on the lookup path.
resolve_tag(name, resp) ==
    IF HasChar(name, ":") THEN name
    ELSE IF is_custom_registry(name) THEN name \o <<":">> \o latest
    ELSE LET tag == get_best_tag(resp)
         IN  IF tag # NoTag THEN name \o <<":">> \o tag
             ELSE name \o <<":">> \o latest

\* a lookup for every name without tag
needs_lookup_untagged(name) == ~HasChar(name, ":")

\* whether process_image calls the tag lookup for this name
needs_lookup(name) == ~HasChar(name, ":") /\ ~is_custom_registry(name)

----------------------------------------------------------------------------
(* SkopeoClient *)

\* What `skopeo inspect` can do: print a JSON object ("ok"), exit non-zero
\* (CalledProcessError), print something json.loads rejects (JSONDecodeError),
\* or not be there to run at all (subprocess.run raises FileNotFoundError,
\* which inspect_image has no handler for).
InspectKinds == {"ok", "nonzero", "unparsable", "unavailable"}

\* metadata as a set of <<key, value>> pairs; the image used in the model
Metadata1 ==
    {<<"Created", "2024">>, <<"Architecture", "amd64">>, <<"Os", "linux">>,
     <<"Layers", "2">>, <<"Env", "PATH">>, <<"Labels", "none">>}

\* inspect_image's return value: the parsed object, or None (the empty set)
inspect_image(kind) == IF kind = "ok" THEN Metadata1 ELSE {}

\* whether inspect_image raises instead of returning
inspect_raises(kind) == kind = "unavailable"

\* process_image lines 437-452: image_info built from the metadata
image_info_of(metadata) ==
    IF metadata = {} THEN {}
    ELSE {<<"Created", "2024">>, <<"Architecture", "amd64">>, <<"Os", "linux">>,
          <<"LayersCount", "2">>, <<"Env", "PATH">>, <<"Labels", "none">>}

\* a pull whose exit status is not looked at
pull_image_always(kind) == TRUE

\* pull_image's return value: True only when skopeo copy exits with 0
pull_image(kind) == kind = "ok"

----------------------------------------------------------------------------
(* Klepto2.extract_image *)

\* A pulled image directory: the manifest (absent, unparsable, or a list of
\* layer digests) and the directory listing, each entry with what tar would
\* unpack from it (nothing when it is no archive).  File names and digests are
\* sequences of tokens; "sha256:" is one token.
manifest_json == <<"manifest.json">>
version_file == <<"version">>
sha_prefix == "sha256:"

\* digest.replace("sha256:", "")
clean_digest(digest) == SelectSeq(digest, LAMBDA tok : tok # sha_prefix)

\* the names os.listdir(image_dir) returns, in listing order
listdir(dir) == [k \in 1..Len(dir.files) |-> dir.files[k].name]

\* os.path.exists(os.path.join(image_dir, name)); joining the empty name gives
\* the directory itself
exists_in(dir, name) == name = <<>> \/ \E k \in 1..Len(dir.files) : dir.files[k].name = name

\* an element of "layers" that is no object, or whose digest is no string:
\* layer.get or digest.replace raises, and the handler of line 329 ends the loop
NotALayer == <<"?">>

\* lines 319-328: the files the manifest's layers resolve to; a layer without
\* digest has the empty digest
RECURSIVE layer_files(_, _)
layer_files(dir, layers) ==
    IF layers = <<>> \/ Head(layers) = NotALayer THEN <<>>
    ELSE LET digest == Head(layers)
             clean == clean_digest(digest)
             this == IF exists_in(dir, clean) THEN <<clean>>
                     ELSE IF exists_in(dir, digest) THEN <<digest>>
                     ELSE <<>>
         IN  this \o layer_files(dir, Tail(layers))

\* lines 310-338: files_to_extract
files_to_extract(dir) ==
    LET fromManifest == IF dir.manifest.state = "ok" THEN layer_files(dir, dir.manifest.layers)
                        ELSE <<>>
    IN  IF fromManifest # <<>> THEN fromManifest
        ELSE SelectSeq(listdir(dir), LAMBDA f : f \notin {manifest_json, version_file})

\* what `tar -xf image_dir/name -C extract_root` unpacks
payload(dir, name) ==
    IF \E k \in 1..Len(dir.files) : dir.files[k].name = name
    THEN dir.files[CHOOSE k \in 1..Len(dir.files) : dir.files[k].name = name].unpacks
    ELSE <<>>

\* lines 340-351: the tree under extract_root after every file was tried, in
\* extraction order
RECURSIVE extracted_tree(_, _)
extracted_tree(dir, names) ==
    IF names = <<>> THEN <<>>
    ELSE payload(dir, Head(names)) \o extracted_tree(dir, Tail(names))

\* how one `tar -xf` ends: subprocess.run raises when tar cannot be started
\* (the handler of line 350 logs it), else tar unpacks an archive ("ok") or
\* exits non-zero, which check=False ignores ("failed")
tar_outcome(dir, name, tar) ==
    IF tar = "missing" THEN "raised"
    ELSE IF payload(dir, name) # <<>> THEN "ok"
    ELSE "failed"

\* a loop that gives up at the first archive that does not unpack
RECURSIVE extract_until_failure(_, _, _)
extract_until_failure(dir, names, tar) ==
    IF names = <<>> THEN <<>>
    ELSE LET outcome == tar_outcome(dir, Head(names), tar)
         IN  <<[name |-> Head(names), outcome |-> outcome]>>
             \o (IF outcome = "ok" THEN extract_until_failure(dir, Tail(names), tar) ELSE <<>>)

\* lines 340-351: the tar runs of the extraction loop, in order
RECURSIVE extract_attempts(_, _, _)
extract_attempts(dir, names, tar) ==
    IF names = <<>> THEN <<>>
    ELSE <<[name |-> Head(names), outcome |-> tar_outcome(dir, Head(names), tar)]>>
         \o extract_attempts(dir, Tail(names), tar)

\* the names the attempts were made for
attempted(attempts) == [k \in 1..Len(attempts) |-> attempts[k].name]

\* extract_image has no statement outside its handlers that raises on a
\* directory the pull has filled
extract_raises(dir) == FALSE

----------------------------------------------------------------------------
(* FileScanner *)

Star == [star |-> TRUE, chars |-> {}]
Lit(c) == [star |-> FALSE, chars |-> {c}]
OneOf(cs) == [star |-> FALSE, chars |-> cs]

\* Config.SENSITIVE_FILES, each pattern as fnmatch reads it
SENSITIVE_FILES == <<
    [name |-> "SHADOW", git |-> FALSE, pattern |-> <<Lit("s"), Lit("h"), Lit("a"), Lit("d"), Lit("o"), Lit("w")>>, action |-> "shadow"],
    [name |-> "SSH KEY", git |-> FALSE, pattern |-> <<Star, Lit("i"), Lit("d"), Lit("_"), OneOf({"r", "d"}), Lit("s"), Lit("a")>>, action |-> "exist"],
    [name |-> "GIT CONFIG", git |-> TRUE, pattern |-> <<Lit("."), Lit("g"), Lit("i"), Lit("t"), Lit("/"), Lit("c"), Lit("o"), Lit("n"), Lit("f"), Lit("i"), Lit("g")>>, action |-> "cat"],
    [name |-> "HTPASSWD", git |-> FALSE, pattern |-> <<Lit("."), Lit("h"), Lit("t"), Lit("p"), Lit("a"), Lit("s"), Lit("s"), Lit("w"), Lit("d")>>, action |-> "cat"],
    [name |-> "NPMRC", git |-> FALSE, pattern |-> <<Lit("."), Lit("n"), Lit("p"), Lit("m"), Lit("r"), Lit("c")>>, action |-> "cat"],
    [name |-> "DOCKERCFG", git |-> FALSE, pattern |-> <<Lit("."), Lit("d"), Lit("o"), Lit("c"), Lit("k"), Lit("e"), Lit("r"), Lit("c"), Lit("f"), Lit("g")>>, action |-> "cat"],
    [name |-> "PPK", git |-> FALSE, pattern |-> <<Star, Lit("."), Lit("p"), Lit("p"), Lit("k")>>, action |-> "cat"],
    [name |-> ".CREDENTIALS", git |-> FALSE, pattern |-> <<Lit("."), Lit("c"), Lit("r"), Lit("e"), Lit("d"), Lit("e"), Lit("n"), Lit("t"), Lit("i"), Lit("a"), Lit("l"), Lit("s")>>, action |-> "cat"],
    [name |-> "CREDENTIALS (AWS)", git |-> FALSE, pattern |-> <<Lit("c"), Lit("r"), Lit("e"), Lit("d"), Lit("e"), Lit("n"), Lit("t"), Lit("i"), Lit("a"), Lit("l"), Lit("s")>>, action |-> "cat"],
    [name |-> ".S3CFG", git |-> FALSE, pattern |-> <<Lit("."), Lit("s"), Lit("3"), Lit("c"), Lit("f"), Lit("g")>>, action |-> "cat"],
    [name |-> "WP-CONFIG.PHP", git |-> FALSE, pattern |-> <<Lit("w"), Lit("p"), Lit("-"), Lit("c"), Lit("o"), Lit("n"), Lit("f"), Lit("i"), Lit("g"), Lit("."), Lit("p"), Lit("h"), Lit("p")>>, action |-> "cat"],
    [name |-> ".ENV", git |-> FALSE, pattern |-> <<Lit("."), Lit("e"), Lit("n"), Lit("v")>>, action |-> "cat"],
    [name |-> ".GIT-CREDENTIALS", git |-> FALSE, pattern |-> <<Lit("."), Lit("g"), Lit("i"), Lit("t"), Lit("-"), Lit("c"), Lit("r"), Lit("e"), Lit("d"), Lit("e"), Lit("n"), Lit("t"), Lit("i"), Lit("a"), Lit("l"), Lit("s")>>, action |-> "cat"],
    [name |-> ".BASH_HISTORY", git |-> FALSE, pattern |-> <<Lit("."), Lit("b"), Lit("a"), Lit("s"), Lit("h"), Lit("_"), Lit("h"), Lit("i"), Lit("s"), Lit("t"), Lit("o"), Lit("r"), Lit("y")>>, action |-> "cat"],
    [name |-> ".NETRC", git |-> FALSE, pattern |-> <<Lit("."), Lit("n"), Lit("e"), Lit("t"), Lit("r"), Lit("c")>>, action |-> "cat"],
    [name |-> "FILEZILLA.XML", git |-> FALSE, pattern |-> <<Lit("f"), Lit("i"), Lit("l"), Lit("e"), Lit("z"), Lit("i"), Lit("l"), Lit("l"), Lit("a"), Lit("."), Lit("x"), Lit("m"), Lit("l")>>, action |-> "cat"],
    [name |-> "RECENTSERVERS.XML", git |-> FALSE, pattern |-> <<Lit("r"), Lit("e"), Lit("c"), Lit("e"), Lit("n"), Lit("t"), Lit("s"), Lit("e"), Lit("r"), Lit("v"), Lit("e"), Lit("r"), Lit("s"), Lit("."), Lit("x"), Lit("m"), Lit("l")>>, action |-> "cat"],
    [name |-> "CONFIG.JSON", git |-> FALSE, pattern |-> <<Lit("c"), Lit("o"), Lit("n"), Lit("f"), Lit("i"), Lit("g"), Lit("."), Lit("j"), Lit("s"), Lit("o"), Lit("n")>>, action |-> "cat"],
    [name |-> ".PGPASS", git |-> FALSE, pattern |-> <<Lit("."), Lit("p"), Lit("g"), Lit("p"), Lit("a"), Lit("s"), Lit("s")>>, action |-> "cat"]
>>

UpperToLower ==
    ("A" :> "a") @@ ("B" :> "b") @@ ("C" :> "c") @@ ("D" :> "d") @@ ("E" :> "e") @@ ("F" :> "f") @@ ("G" :> "g") @@ ("H" :> "h") @@ ("I" :> "i") @@ ("J" :> "j") @@ ("K" :> "k") @@ ("L" :> "l") @@ ("M" :> "m") @@ ("N" :> "n") @@ ("O" :> "o") @@ ("P" :> "p") @@ ("Q" :> "q") @@ ("R" :> "r") @@ ("S" :> "s") @@ ("T" :> "t") @@ ("U" :> "u") @@ ("V" :> "v") @@ ("W" :> "w") @@ ("X" :> "x") @@ ("Y" :> "y") @@ ("Z" :> "z")

\* str.lower(), character by character
Lower(s) == [k \in 1..Len(s) |-> IF s[k] \in DOMAIN UpperToLower THEN UpperToLower[s[k]] ELSE s[k]]

\* fnmatch.fnmatchcase(name, pattern)
RECURSIVE fnmatch(_, _)
fnmatch(name, pattern) ==
    IF pattern = <<>> THEN name = <<>>
    ELSE IF Head(pattern).star
         THEN \E k \in 0..Len(name) : fnmatch(SubSeq(name, k + 1, Len(name)), Tail(pattern))
         ELSE name # <<>> /\ Head(name) \in Head(pattern).chars /\ fnmatch(Tail(name), Tail(pattern))

\* FileScanner._match_pattern; the patterns of SENSITIVE_FILES are written
\* lower-cased already
match_pattern(filename, pattern) == fnmatch(Lower(filename), pattern)

\* a finding: the message's fixed part (the rule's title for "Found <title>"),
\* the path it names, its text
Finding(kind, file, text) == [kind |-> kind, dirs |-> file.dirs, name |-> file.name, text |-> text]

\* FileScanner._check_shadow
check_shadow(file) ==
    IF ~file.readable THEN <<>>
    ELSE IF \E k \in 1..Len(file.lines) : HasChar(file.lines[k], "$")
    THEN <<Finding("Found SHADOW file", file, <<>>)>>
         \o [k \in 1..Len(SelectSeq(file.lines, LAMBDA l : HasChar(l, "$"))) |->
                Finding("Shadow content", file, <<SelectSeq(file.lines, LAMBDA l : HasChar(l, "$"))[k]>>)]
    ELSE <<>>

\* FileScanner._cat_file
cat_file(file) ==
    <<Finding("Found sensitive file", file, <<>>)>>
    \o (IF file.readable THEN <<Finding("Content of", file, file.lines)>> ELSE <<>>)

\* lines 236-262: what one rule adds for one file of the walk
rule_file_findings(rule, file) ==
    IF rule.git
    THEN IF file.dirs # <<>> /\ file.dirs[Len(file.dirs)] = ".git" /\ file.name = <<"c", "o", "n", "f", "i", "g">>
         THEN <<Finding("Found GIT CONFIG", file, <<>>)>> \o cat_file(file)
         ELSE <<>>
    ELSE IF match_pattern(file.name, rule.pattern)
         THEN IF rule.action = "shadow" THEN check_shadow(file)
              ELSE IF rule.action = "cat" THEN cat_file(file)
              ELSE <<Finding(rule.name, file, <<>>)>>
         ELSE <<>>

RECURSIVE rule_findings(_, _)
rule_findings(rule, tree) ==
    IF tree = <<>> THEN <<>>
    ELSE rule_file_findings(rule, Head(tree)) \o rule_findings(rule, Tail(tree))

RECURSIVE scan_rules(_, _)
scan_rules(rules, tree) ==
    IF rules = <<>> THEN <<>>
    ELSE rule_findings(Head(rules), tree) \o scan_rules(Tail(rules), tree)

\* FileScanner.scan: tree is the extracted tree in os.walk order
scan(tree) == scan_rules(SENSITIVE_FILES, tree)

----------------------------------------------------------------------------
(* Detector A: trufflehog *)

DESIRED_DETECTOR_TYPES ==
    {2, 3, 7, 9, 15, 17, 18, 31, 39, 40, 48, 69, 71, 120, 177, 350, 353, 582, 584, 599, 737, 924}

UNDESIRED_TERMS ==
    {<<"e", "x", "a", "m", "p", "l", "e">>, <<"t", "e", "s", "t">>,
     <<"d", "u", "m", "m", "y">>, <<"s", "a", "m", "p", "l", "e">>}

\* term in s
Contains(s, term) == \E k \in 1..(Len(s) - Len(term) + 1) : SubSeq(s, k, k + Len(term) - 1) = term

\* A line of the output file: blank, text json.loads rejects ("garbage"), JSON
\* that is no object ("nonobject", such as a number or null), or an object.
BlankLine == [kind |-> "blank", obj |-> <<>>]
GarbageLine == [kind |-> "garbage", obj |-> <<>>]
NonObjectLine == [kind |-> "nonobject", obj |-> <<>>]
ObjectLine(obj) == [kind |-> "object", obj |-> obj]

\* obj.get(key, default)
Get(obj, key, default) == IF key \in DOMAIN obj THEN obj[key] ELSE default

\* lines 388-395: all_data
all_data(lines) == SelectSeq(lines, LAMBDA l : l.kind \in {"nonobject", "object"})

\* a filter that compares Raw as it is written
retained_as_written(obj) ==
    /\ "DetectorType" \in DOMAIN obj
    /\ obj["DetectorType"] \in DESIRED_DETECTOR_TYPES
    /\ LET raw == Get(obj, "Raw", <<>>)
       IN  ~(raw # <<>> /\ \E term \in UNDESIRED_TERMS : Contains(raw, term))

\* lines 399-404: whether the record is appended to filtered_data
retained(obj) ==
    /\ "DetectorType" \in DOMAIN obj
    /\ obj["DetectorType"] \in DESIRED_DETECTOR_TYPES
    /\ LET raw == Get(obj, "Raw", <<>>)
       IN  ~(raw # <<>> /\ \E term \in UNDESIRED_TERMS : Contains(Lower(raw), term))

\* a record kept whole
project_all(obj) == obj

\* lines 406-413: the four fields kept
project(obj) ==
    [SourceMetadata |-> Get(obj, "SourceMetadata", "None"),
     DetectorName |-> Get(obj, "DetectorName", "None"),
     DetectorType |-> obj["DetectorType"],
     Raw |-> Get(obj, "Raw", <<>>)]

RECURSIVE filter_data(_)
filter_data(data) ==
    IF data = <<>> THEN <<>>
    ELSE (IF retained(Head(data).obj) THEN <<project(Head(data).obj)>> ELSE <<>>)
         \o filter_data(Tail(data))

\* The output file: whether it exists and its lines.
NoFile == [exists |-> FALSE, lines |-> <<>>]
FileOf(lines) == [exists |-> TRUE, lines |-> lines]

\* parse_trufflehog_results raises AttributeError at obj.get when a line
\* holds JSON that is no object
parse_raises(file) == file.exists /\ \E k \in 1..Len(file.lines) : file.lines[k].kind = "nonobject"

\* a parser that keeps every record
parse_unfiltered(file) ==
    IF ~file.exists THEN <<>>
    ELSE [k \in 1..Len(all_data(file.lines)) |-> project(all_data(file.lines)[k].obj)]

\* Klepto2.parse_trufflehog_results, when it returns
parse_trufflehog_results(file) ==
    IF ~file.exists THEN <<>>
    ELSE filter_data(all_data(file.lines))

\* Klepto2.run_trufflehog: the output file it leaves.  open(output_file, "w")
\* can fail ("openfail": no file), the binary can be missing (the file was
\* created and stays empty), or trufflehog runs and exits with any status
\* (check=False): what it printed is in the file.
run_trufflehog(outcome) ==
    IF outcome.kind = "openfail" THEN NoFile
    ELSE IF outcome.kind = "missing" THEN FileOf(<<>>)
    ELSE FileOf(outcome.lines)

----------------------------------------------------------------------------
(* Detector B: gitleaks *)

\* Klepto2.run_gitleaks: the report file it leaves: none when the binary is
\* missing or gitleaks wrote none, else text that is JSON or not.
run_gitleaks(outcome) ==
    IF outcome.kind = "missing" THEN [exists |-> FALSE, parses |-> FALSE, value |-> <<>>]
    ELSE outcome.report

\* process_image lines 487-493
gitleaks_findings_of(report) ==
    IF report.exists /\ report.parses THEN report.value ELSE <<>>

----------------------------------------------------------------------------
(* Pools of collaborator answers *)

Range(s) == {s[k] : k \in 1..Len(s)}

\* the sequences over S of length up to n
RECURSIVE SeqsUpTo(_, _)
SeqsUpTo(S, n) ==
    IF n = 0 THEN {<<>>}
    ELSE LET shorter == SeqsUpTo(S, n - 1)
         IN  shorter \cup {Append(s, x) : s \in {q \in shorter : Len(q) = n - 1}, x \in S}


\* an answer of `skopeo copy`: its exit and the directory it left
PullFailed == [kind |-> "fail", dir |-> [manifest |-> [state |-> "absent", layers |-> <<>>], files |-> <<>>]]
Pulled(dir) == [kind |-> "ok", dir |-> dir]

\* a file of an extracted tree
TreeFile(dirs, name, lines) == [dirs |-> dirs, name |-> name, lines |-> lines, readable |-> TRUE]

shadow_name == <<"s", "h", "a", "d", "o", "w">>
app_py == <<"a", "p", "p", ".", "p", "y">>
root_hash_line == <<"r", "o", "o", "t", ":", "$", "6", "$", "a", "b">>
daemon_line == <<"d", "a", "e", "m", "o", "n", ":", "*">>

\* a one-layer image whose layer is stored without the sha256: prefix and
\* holds nothing the file rules match
PlainDir ==
    [manifest |-> [state |-> "ok", layers |-> << <<sha_prefix, "aa">> >>],
     files |-> << [name |-> manifest_json, unpacks |-> <<>>],
                  [name |-> version_file, unpacks |-> <<>>],
                  [name |-> <<"aa">>, unpacks |-> <<TreeFile(<<"app">>, app_py, <<>>)>>] >>]

\* an image without manifest whose single blob unpacks /etc/shadow
ShadowDir ==
    [manifest |-> [state |-> "absent", layers |-> <<>>],
     files |-> << [name |-> version_file, unpacks |-> <<>>],
                  [name |-> <<"bb">>,
                   unpacks |-> <<TreeFile(<<"etc">>, shadow_name, <<root_hash_line, daemon_line>>)>>] >>]

\* detector A records
real_key == <<"A", "K", "I", "A", "_", "r", "e", "a", "l">>
test_key == <<"T", "e", "s", "t", "-", "A", "K", "I", "A">>
GoodRecord ==
    ObjectLine([SourceMetadata |-> "meta1", DetectorName |-> "AWS", DetectorType |-> 2,
                Raw |-> real_key, Verified |-> "false"])
PlaceholderRecord ==
    ObjectLine([SourceMetadata |-> "meta2", DetectorName |-> "AWS", DetectorType |-> 2,
                Raw |-> test_key, Verified |-> "false"])
OtherTypeRecord ==
    ObjectLine([SourceMetadata |-> "meta3", DetectorName |-> "Other", DetectorType |-> 9999,
                Raw |-> real_key, Verified |-> "false"])

DetA(kind, lines) == [kind |-> kind, lines |-> lines]

\* detector B reports
NoReport == [exists |-> FALSE, parses |-> FALSE, value |-> <<>>]
BadReport == [exists |-> TRUE, parses |-> FALSE, value |-> <<>>]
Report(leaks) == [exists |-> TRUE, parses |-> TRUE, value |-> leaks]
DetB(kind, report) == [kind |-> kind, report |-> report]

\* The answers tried where several invocations run concurrently: every stage
\* can succeed, and each outcome of an invocation (artifact, None after a
\* failed pull, exception) is present once.
RunEnv ==
    [tags |-> {TagNotFound},
     inspect |-> {"ok", "unavailable"},
     pull |-> {Pulled(PlainDir), PullFailed},
     tar |-> {"present"},
     detA |-> {DetA("exit0", <<GoodRecord>>)},
     detB |-> {DetB("exit0", Report(<<>>))},
     write |-> {"ok"}]

\* The answers tried for a single invocation.
PipelineEnv ==
    [tags |-> {TagError, TagNotFound, TagPage(<<>>), TagPage(<<v2, latest>>), TagPage(<<v2, v1>>)},
     inspect |-> InspectKinds,
     pull |-> {Pulled(PlainDir), Pulled(ShadowDir), PullFailed},
     tar |-> {"present"},
     detA |-> {DetA("exit0", <<GoodRecord, PlaceholderRecord>>),
               DetA("exit0", <<OtherTypeRecord>>),
               DetA("nonzero", <<GoodRecord, GarbageLine>>),
               DetA("nonzero", <<GarbageLine, BlankLine>>),
               DetA("nonzero", <<NonObjectLine>>),
               DetA("missing", <<>>),
               DetA("openfail", <<>>)},
     detB |-> {DetB("exit0", Report(<<>>)),
               DetB("exit0", NoReport),
               DetB("nonzero", Report(<<"leak1">>)),
               DetB("nonzero", BadReport),
               DetB("missing", NoReport)},
     write |-> {"ok", "oserror"}]

\* longest detector-A output tried in SpecFilter, in lines
MaxRecords == 2

dummy_key == <<"x", "D", "U", "M", "M", "Y">>

\* a detector A record with the given fields out of DetectorType and Raw,
\* besides SourceMetadata, DetectorName and Verified
Rec(fields) ==
    [key \in {"SourceMetadata", "DetectorName", "Verified"} \cup DOMAIN fields |->
        IF key \in DOMAIN fields THEN fields[key]
        ELSE IF key = "SourceMetadata" THEN "meta1"
        ELSE IF key = "DetectorName" THEN "AWS"
        ELSE "false"]

\* records tried: DetectorType on the allow-list (2, 924), off it (9999) or
\* absent; Raw clean, with a denylist term in capitals, empty or absent
RecordPool ==
    {Rec([DetectorType |-> type, Raw |-> raw]) :
        type \in {2, 924, 9999}, raw \in {real_key, test_key, dummy_key, <<>>}}
    \cup {Rec([DetectorType |-> type]) : type \in {2, 9999}}
    \cup {Rec([Raw |-> raw]) : raw \in {real_key, test_key}}

LinePool == {ObjectLine(obj) : obj \in RecordPool} \cup {BlankLine, GarbageLine}

\* The answers tried for the filter of detector A: every output of up to
\* MaxRecords lines, all else going well.
FilterEnv ==
    [tags |-> {TagNotFound},
     inspect |-> {"ok"},
     pull |-> {Pulled(PlainDir)},
     tar |-> {"present"},
     detA |-> {DetA("exit0", lines) : lines \in SeqsUpTo(LinePool, MaxRecords)},
     detB |-> {DetB("exit0", Report(<<>>))},
     write |-> {"ok"}]

\* lines of every kind: blank, rejected by json.loads, JSON that is no object,
\* and records the filter keeps (types 2 and 924) or drops
ParseLinePool ==
    {BlankLine, GarbageLine, NonObjectLine, GoodRecord, PlaceholderRecord, OtherTypeRecord,
     ObjectLine(Rec([DetectorType |-> 924, Raw |-> real_key]))}

\* The answers tried for the parser of detector A's output: every file of up
\* to MaxRecords such lines, all else going well.
ParseEnv ==
    [tags |-> {TagNotFound},
     inspect |-> {"ok"},
     pull |-> {Pulled(PlainDir)},
     tar |-> {"present"},
     detA |-> {DetA("exit0", lines) : lines \in SeqsUpTo(ParseLinePool, MaxRecords)},
     detB |-> {DetB("exit0", Report(<<>>))},
     write |-> {"ok"}]

\* most layers a manifest declares, and most entries a pulled directory
\* holds, in SpecExtract
MaxLayers == 2
MaxListing == 3

\* what a manifest declares as a layer: a digest with or without the sha256:
\* prefix, an object without digest, or something that is no layer object
LayerPool == {<<sha_prefix, "aa">>, <<"bb">>, <<>>, NotALayer}

\* the entries a pulled directory may hold
NamePool == {manifest_json, version_file, <<"aa">>, <<sha_prefix, "aa">>, <<"bb">>}

\* what tar unpacks from an entry: aa and sha256:aa are archives, the others not
unpacks_of(name) ==
    IF name = <<"aa">> THEN <<TreeFile(<<"app">>, app_py, <<>>)>>
    ELSE IF name = <<sha_prefix, "aa">> THEN <<TreeFile(<<"etc">>, shadow_name, <<root_hash_line>>)>>
    ELSE <<>>

DirOf(manifest, listing) ==
    [manifest |-> manifest,
     files |-> [k \in 1..Len(listing) |-> [name |-> listing[k], unpacks |-> unpacks_of(listing[k])]]]

\* directory listings: no name twice
Listings == {l \in SeqsUpTo(NamePool, MaxListing) : \A a, b \in 1..Len(l) : l[a] = l[b] => a = b}

\* what manifest.json can hold in a directory with this listing
ManifestPool(listing) ==
    IF manifest_json \in Range(listing)
    THEN {[state |-> "unparsable", layers |-> <<>>]}
         \cup {[state |-> "ok", layers |-> layers] : layers \in SeqsUpTo(LayerPool, MaxLayers)}
    ELSE {[state |-> "absent", layers |-> <<>>]}

DirPool == UNION {{DirOf(manifest, listing) : manifest \in ManifestPool(listing)} : listing \in Listings}

\* The answers tried for extract_image: every pulled directory of DirPool,
\* with and without a tar to run, all else going well.
ExtractEnv ==
    [tags |-> {TagNotFound},
     inspect |-> {"ok"},
     pull |-> {Pulled(dir) : dir \in DirPool},
     tar |-> {"present", "missing"},
     detA |-> {DetA("exit0", <<GoodRecord>>)},
     detB |-> {DetB("exit0", Report(<<>>))},
     write |-> {"ok"}]

\* most lines of a file tried in SpecScan
MaxLines == 2

shadow_backup == <<"s", "h", "a", "d", "o", "w", "-">>
gshadow_name == <<"g", "s", "h", "a", "d", "o", "w">>
user_hash_line == <<"u", ":", "$", "1">>

\* a pulled image whose single blob unpacks /etc/<name> with these lines
EtcDir(name, lines) ==
    [manifest |-> [state |-> "absent", layers |-> <<>>],
     files |-> << [name |-> <<"bb">>, unpacks |-> <<TreeFile(<<"etc">>, name, lines)>>] >>]

\* The answers tried for the file scan: shadow, shadow- and gshadow with
\* every content of up to MaxLines lines, all else going well.
ScanEnv ==
    [tags |-> {TagNotFound},
     inspect |-> {"ok"},
     pull |-> {Pulled(EtcDir(name, lines)) :
                  name \in {shadow_name, shadow_backup, gshadow_name},
                  lines \in SeqsUpTo({root_hash_line, daemon_line, user_hash_line}, MaxLines)},
     tar |-> {"present"},
     detA |-> {DetA("exit0", <<GoodRecord>>)},
     detB |-> {DetB("exit0", Report(<<>>))},
     write |-> {"ok"}]

\* an image whose manifest lists two layers, both stored without the
\* sha256: prefix, holding nothing the file rules match
TwoLayerDir ==
    [manifest |-> [state |-> "ok", layers |-> << <<sha_prefix, "aa">>, <<sha_prefix, "cc">> >>],
     files |-> << [name |-> manifest_json, unpacks |-> <<>>],
                  [name |-> version_file, unpacks |-> <<>>],
                  [name |-> <<"aa">>, unpacks |-> <<TreeFile(<<"app">>, app_py, <<>>)>>],
                  [name |-> <<"cc">>, unpacks |-> <<TreeFile(<<"etc">>, <<"h", "o", "s", "t", "s">>, <<daemon_line>>)>>] >>]

\* The answers of the end-to-end run on "nginx": any tag answer, skopeo
\* there to run, the pull giving TwoLayerDir, detector A printing a good and
\* a placeholder record, detector B reporting an empty array, the artifact
\* written.
NginxEnv ==
    [tags |-> {TagError, TagNotFound, TagPage(<<>>), TagPage(<<v2, latest>>), TagPage(<<v2, v1>>)},
     inspect |-> {"ok", "nonzero", "unparsable"},
     pull |-> {Pulled(TwoLayerDir)},
     tar |-> {"present"},
     detA |-> {DetA("exit0", <<GoodRecord, PlaceholderRecord>>)},
     detB |-> {DetB("exit0", Report(<<>>))},
     write |-> {"ok"}]

----------------------------------------------------------------------------
(* A process_image invocation *)

NoDir == [manifest |-> [state |-> "absent", layers |-> <<>>], files |-> <<>>]

\* What the collaborators answered to this invocation so far.
NothingHeard ==
    [tags |-> NotAsked, inspect |-> "none", pull |-> "none", tar |-> "none",
     detA |-> DetA("none", <<>>), detB |-> DetB("none", NoReport), write |-> "none"]

Pending == [kind |-> "pending", stage |-> "none", path |-> <<>>]
ReturnedPath(path) == [kind |-> "path", stage |-> "persist", path |-> path]
ReturnedNone == [kind |-> "none", stage |-> "pull", path |-> <<>>]
Raised(stage) == [kind |-> "raised", stage |-> stage, path |-> <<>>]

\* What executor.submit(self.process_image, img) creates: the call's position,
\* its locals, the entries of its temporary directory, its result, and as
\* history how many futures were created for img, how often the call was
\* entered, the stages it went through and the answers it got.
NewTask(img) ==
    [pc |-> "queued", arg |-> img, futures |-> 1, starts |-> 0,
     image_name |-> img, image_info |-> {}, temp |-> {}, image_dir |-> NoDir,
     attempts |-> <<>>, tree |-> <<>>, file_findings |-> <<>>, trufflehog_findings |-> <<>>,
     gitleaks_findings |-> <<>>, result |-> Pending,
     log |-> <<>>, heard |-> NothingHeard]

\* a directory made with mkdtemp and never removed
cleanup_nothing(temp) == temp

\* tempfile.TemporaryDirectory().__exit__: the directory and all it holds are removed
cleanup(temp) == {}

\* The invocation ends in `stage` with `result`, leaving the with-block of
\* line 463 when it was inside it.
Ended(t, stage, result) ==
    [t EXCEPT !.pc = "ended", !.temp = cleanup(t.temp), !.log = Append(t.log, stage), !.result = result]

\* a stage that is done and stays the stage to do
Advance_stay(t, stage, next) == [t EXCEPT !.log = Append(t.log, stage)]

\* The invocation has done `stage` and moves on to `next`.
Advance(t, stage, next) == [t EXCEPT !.pc = next, !.log = Append(t.log, stage)]

Running == {i \in DOMAIN task : task[i].pc \notin {"queued", "ended"}}
HasEnded(i) == i \in DOMAIN task /\ task[i].pc = "ended"

\* the ScanResult of lines 496-505 (scan_timestamp left out: the clock is not modelled)
final_result(t) ==
    [image |-> t.image_name, image_metadata |-> t.image_info,
     file_findings |-> t.file_findings,
     trufflehog_findings |-> t.trufflehog_findings,
     gitleaks_findings |-> t.gitleaks_findings]

----------------------------------------------------------------------------
(* Klepto2.run *)

Modes == {"search", "image", "mixed"}

\* raw inputs tried in Spec; every mode reads them its own way
InputPool == {u_app, u_app_latest, uapp_latest}

\* the repo_name lists a search response may hold
SearchPool == {<<>>, <<u_app>>, <<u_app, u_app_latest>>}

\* what the registry answers to a search request: a page of results, an error
\* status with a body, no answer at all
SearchAnswers ==
    {[status |-> "ok", names |-> names] : names \in SearchPool}
        \cup {[status |-> "http_error", names |-> <<u_app>>], [status |-> "unreachable", names |-> <<>>]}

\* HubClient.search, lines 116-127: the names of the page, the empty list on
\* any exception
search(resp) == IF resp.status = "ok" THEN resp.names ELSE <<>>

\* the searches of the resolution loop (lines 522, 541): none yet, and one more.
\* The loop's term and found are not read once the loop is over.
NoCall == [calls |-> 0, term |-> <<>>, status |-> "none", found |-> <<>>]
Called(before, term, resp) ==
    [calls |-> before.calls + 1, term |-> term, status |-> resp.status, found |-> search(resp)]

\* a test for the tag separator alone
is_image_tagged(term) == HasChar(term, ":")

\* line 533: whether mixed mode takes the input as an image
is_image(term) == HasChar(term, ":") \/ is_custom_registry(term)

\* the lists without repetition that enumerate a set
Enumerations(S) == {s \in SeqsUpTo(S, Cardinality(S)) : Len(s) = Cardinality(S) /\ Range(s) = S}

\* the list as it is, were line 547 missing
list_kept(names) == {names}

\* line 547, list(set(image_names)): the distinct names, in any order
list_set(names) == Enumerations(Range(names))

\* an executor without width
slot_always == TRUE

\* the executor starts a queued call only while fewer than max_workers run
slot_free == Cardinality(Running) < max_workers

\* a loop without handler
catches_nothing(result) == FALSE

\* line 569: the handler of the as_completed loop takes every Exception
catches(result) == TRUE

\* a loop left at the first future, and an executor that does not wait
some_collected == collected # {}

\* the with-block of line 561 is left when every future has been collected
all_collected == collected = DOMAIN task

Init ==
    /\ mode \in Modes
    /\ inputs \in SeqsUpTo(InputPool, MaxInputs) \ {<<>>}
    /\ max_workers \in 1..MaxWidth
    /\ search_call = NoCall
    /\ runpc = "resolve"
    /\ image_names = <<>>
    /\ resolved = {}
    /\ repeated = {}
    /\ queue = <<>>
    /\ task = <<>>
    /\ collected = {}
    /\ logged = {}
    /\ outdir = <<>>
    /\ writes = <<>>

\* lines 519-524
ResolveSearch ==
    /\ runpc = "resolve" /\ mode = "search" /\ inputs # <<>>
    /\ \E resp \in SearchAnswers :
          /\ search_call' = Called(search_call, Head(inputs), resp)
          /\ image_names' = image_names \o search(resp)
    /\ inputs' = Tail(inputs)
    /\ UNCHANGED <<mode, max_workers, runpc, resolved, repeated, queue, task, collected, logged, outdir, writes>>

\* lines 525-526
ResolveImage ==
    /\ runpc = "resolve" /\ mode = "image"
    /\ image_names' = inputs
    /\ inputs' = <<>>
    /\ runpc' = "dedup"
    /\ UNCHANGED <<mode, max_workers, search_call, resolved, repeated, queue, task, collected, logged, outdir, writes>>

\* lines 527-544
ResolveMixed ==
    /\ runpc = "resolve" /\ mode = "mixed" /\ inputs # <<>>
    /\ IF is_image(Head(inputs))
       THEN /\ image_names' = Append(image_names, Head(inputs))
            /\ UNCHANGED search_call
       ELSE \E resp \in SearchAnswers :
               /\ search_call' = Called(search_call, Head(inputs), resp)
               /\ image_names' = image_names \o search(resp)
    /\ inputs' = Tail(inputs)
    /\ UNCHANGED <<mode, max_workers, runpc, resolved, repeated, queue, task, collected, logged, outdir, writes>>

\* the resolution loop of search or mixed mode runs out of inputs
ResolveEnd ==
    /\ runpc = "resolve" /\ mode # "image" /\ inputs = <<>>
    /\ runpc' = "dedup"
    /\ UNCHANGED <<mode, inputs, max_workers, search_call, image_names, resolved, repeated, queue, task, collected, logged, outdir, writes>>

\* lines 547-555
Dedup ==
    /\ runpc = "dedup"
    /\ resolved' = Range(image_names)
    /\ repeated' = {image_names[k] : k \in {j \in 1..Len(image_names) : \E h \in 1..(j - 1) : image_names[h] = image_names[j]}}
    /\ \E names \in list_set(image_names) :
          /\ image_names' = names
          /\ runpc' = IF names = <<>> THEN "noimages" ELSE "submit"
    /\ search_call' = NoCall
    /\ UNCHANGED <<mode, inputs, max_workers, queue, task, collected, logged, outdir, writes>>

\* lines 562-564: the next executor.submit of the comprehension
Submit ==
    /\ runpc = "submit"
    /\ LET img == Head(image_names)
       IN  /\ task' = IF img \in DOMAIN task
                      THEN [task EXCEPT ![img].futures = @ + 1, ![img].pc = "queued"]
                      ELSE (img :> NewTask(img)) @@ task
           /\ queue' = Append(queue, img)
    /\ image_names' = Tail(image_names)
    /\ runpc' = IF Tail(image_names) = <<>> THEN "wait" ELSE "submit"
    /\ UNCHANGED <<mode, inputs, max_workers, search_call, resolved, repeated, collected, logged, outdir, writes>>

\* a worker thread takes the next call off the queue and enters process_image
Start ==
    /\ queue # <<>>
    /\ slot_free
    /\ LET i == Head(queue)
       IN  task' = [task EXCEPT ![i].pc = "resolve", ![i].starts = @ + 1]
    /\ queue' = Tail(queue)
    /\ UNCHANGED <<mode, inputs, max_workers, search_call, runpc, image_names, resolved, repeated, collected, logged, outdir, writes>>

\* lines 565-570: as_completed yields a finished future, future.result() is taken
Collect(i) ==
    /\ runpc = "wait"
    /\ HasEnded(i) /\ i \notin collected
    /\ IF task[i].result.kind = "raised"
       THEN IF catches(task[i].result)
            THEN logged' = logged \cup {i} /\ runpc' = runpc
            ELSE logged' = logged /\ runpc' = "unwinding"
       ELSE logged' = logged /\ runpc' = runpc
    /\ collected' = collected \cup {i}
    /\ UNCHANGED <<mode, inputs, max_workers, search_call, image_names, resolved, repeated, queue, task, outdir, writes>>

\* lines 561-572: the with-block is left (shutdown waits for every call); an
\* exception that escaped the loop leaves run with it
Finish ==
    /\ \/ runpc = "wait" /\ all_collected /\ runpc' = "done"
       \/ runpc = "unwinding" /\ (\A i \in DOMAIN task : HasEnded(i)) /\ runpc' = "raised"
    /\ UNCHANGED <<mode, inputs, max_workers, search_call, image_names, resolved, repeated, queue, task, collected, logged, outdir, writes>>

----------------------------------------------------------------------------
(* Klepto2.process_image, stage by stage; E is the pool of collaborator answers *)

RunUnchanged == UNCHANGED <<mode, inputs, max_workers, search_call, runpc, image_names, resolved, repeated, queue, collected, logged>>

\* run_trufflehog and run_gitleaks take every Exception of the detector's
\* start (lines 360, 381), so a missing binary raises nothing
detector_raises(kind) == FALSE

\* lines 417-433
ResolveTag(i, E) ==
    /\ i \in DOMAIN task /\ task[i].pc = "resolve"
    /\ LET t == task[i]
       IN  IF needs_lookup(t.image_name)
           THEN \E resp \in E.tags :
                   task' = [task EXCEPT ![i] =
                       [Advance(t, "resolve", "inspect")
                           EXCEPT !.image_name = resolve_tag(t.image_name, resp),
                                  !.heard.tags = resp]]
           ELSE task' = [task EXCEPT ![i] =
                       [Advance(t, "resolve", "inspect")
                           EXCEPT !.image_name = resolve_tag(t.image_name, TagNotFound)]]
    /\ UNCHANGED <<outdir, writes>> /\ RunUnchanged

\* lines 435-460
Inspect(i, E) ==
    /\ i \in DOMAIN task /\ task[i].pc = "inspect"
    /\ \E kind \in E.inspect :
          LET t == [task[i] EXCEPT !.heard.inspect = kind]
          IN  task' = [task EXCEPT ![i] =
                  IF inspect_raises(kind)
                  THEN Ended(t, "inspect", Raised("inspect"))
                  ELSE [Advance(t, "inspect", "tempdir")
                           EXCEPT !.image_info = image_info_of(inspect_image(kind))]]
    /\ UNCHANGED <<outdir, writes>> /\ RunUnchanged

\* lines 463-467: the temporary directory is created, and image_data in it
EnterTemp(i) ==
    /\ i \in DOMAIN task /\ task[i].pc = "tempdir"
    /\ task' = [task EXCEPT ![i] =
          [Advance(task[i], "tempdir", "pull") EXCEPT !.temp = {"temp_dir", "image_data"}]]
    /\ UNCHANGED <<outdir, writes>> /\ RunUnchanged

\* lines 469-470
Pull(i, E) ==
    /\ i \in DOMAIN task /\ task[i].pc = "pull"
    /\ \E got \in E.pull :
          LET t == [task[i] EXCEPT !.heard.pull = got.kind]
          IN  task' = [task EXCEPT ![i] =
                  IF pull_image(got.kind)
                  THEN [Advance(t, "pull", "extract") EXCEPT !.image_dir = got.dir]
                  ELSE Ended(t, "pull", ReturnedNone)]
    /\ UNCHANGED <<outdir, writes>> /\ RunUnchanged

\* line 472
Extract(i, E) ==
    /\ i \in DOMAIN task /\ task[i].pc = "extract"
    /\ \E tar \in E.tar :
          LET t == [task[i] EXCEPT !.heard.tar = tar, !.temp = @ \cup {"extracted"}]
              names == files_to_extract(t.image_dir)
          IN  task' = [task EXCEPT ![i] =
                  IF extract_raises(t.image_dir)
                  THEN Ended(t, "extract", Raised("extract"))
                  ELSE [Advance(t, "extract", "scan")
                           EXCEPT !.attempts = extract_attempts(t.image_dir, names, tar),
                                  !.tree = IF tar = "missing" THEN <<>>
                                           ELSE extracted_tree(t.image_dir, names)]]
    /\ UNCHANGED <<outdir, writes>> /\ RunUnchanged

\* lines 475-476
Scan(i) ==
    /\ i \in DOMAIN task /\ task[i].pc = "scan"
    /\ LET t == task[i]
       IN  task' = [task EXCEPT ![i] =
              [Advance(t, "scan", "trufflehog") EXCEPT !.file_findings = scan(t.tree)]]
    /\ UNCHANGED <<outdir, writes>> /\ RunUnchanged

\* lines 479-481
Trufflehog(i, E) ==
    /\ i \in DOMAIN task /\ task[i].pc = "trufflehog"
    /\ \E out \in E.detA :
          LET file == run_trufflehog(out)
              t == [task[i] EXCEPT !.heard.detA = out,
                                   !.temp = IF file.exists THEN @ \cup {"trufflehog.json"} ELSE @]
          IN  task' = [task EXCEPT ![i] =
                  IF detector_raises(out.kind) \/ parse_raises(file)
                  THEN Ended(t, "trufflehog", Raised("trufflehog"))
                  ELSE [Advance(t, "trufflehog", "gitleaks")
                           EXCEPT !.trufflehog_findings = parse_trufflehog_results(file)]]
    /\ UNCHANGED <<outdir, writes>> /\ RunUnchanged

\* lines 484-493
Gitleaks(i, E) ==
    /\ i \in DOMAIN task /\ task[i].pc = "gitleaks"
    /\ \E out \in E.detB :
          LET report == run_gitleaks(out)
              t == [task[i] EXCEPT !.heard.detB = out,
                                   !.temp = IF report.exists THEN @ \cup {"gitleaks.json"} ELSE @]
          IN  task' = [task EXCEPT ![i] =
                  IF detector_raises(out.kind)
                  THEN Ended(t, "gitleaks", Raised("gitleaks"))
                  ELSE [Advance(t, "gitleaks", "persist")
                           EXCEPT !.gitleaks_findings = gitleaks_findings_of(report)]]
    /\ UNCHANGED <<outdir, writes>> /\ RunUnchanged

\* lines 496-514
Persist(i, E) ==
    /\ i \in DOMAIN task /\ task[i].pc = "persist"
    /\ \E w \in E.write :
          LET t == [task[i] EXCEPT !.heard.write = w]
              path == output_file(t.image_name)
          IN  IF w = "ok"
              THEN /\ outdir' = (path :> final_result(t)) @@ outdir
                   /\ writes' = Append(writes, <<i, path>>)
                   /\ task' = [task EXCEPT ![i] = Ended(t, "persist", ReturnedPath(path))]
              ELSE /\ UNCHANGED <<outdir, writes>>
                   /\ task' = [task EXCEPT ![i] = Ended(t, "persist", Raised("persist"))]
    /\ RunUnchanged

Stage(i, E) ==
    \/ ResolveTag(i, E)
    \/ Inspect(i, E)
    \/ EnterTemp(i)
    \/ Pull(i, E)
    \/ Extract(i, E)
    \/ Scan(i)
    \/ Trufflehog(i, E)
    \/ Gitleaks(i, E)
    \/ Persist(i, E)

\* single inputs tried: no tag, a tag, a registry-qualified name without tag
PipelineInputs == {nginx, nginx_latest, registry_app}

\* the names a run can submit
ImagePool == InputPool \cup UNION {Range(found) : found \in SearchPool} \cup PipelineInputs

Next ==
    \/ ResolveSearch
    \/ ResolveImage
    \/ ResolveMixed
    \/ ResolveEnd
    \/ Dedup
    \/ Submit
    \/ Start
    \/ \E i \in ImagePool : Collect(i)
    \/ Finish
    \/ \E i \in ImagePool : Stage(i, RunEnv)

Spec == Init /\ [][Next]_vars

----------------------------------------------------------------------------
(* One invocation: run(<<name>>, "image") with the wide pool of answers *)

InitPipeline ==
    /\ mode = "image"
    /\ inputs \in {<<name>> : name \in PipelineInputs}
    /\ max_workers \in 1..MaxWidth
    /\ search_call = NoCall
    /\ runpc = "resolve"
    /\ image_names = <<>>
    /\ resolved = {}
    /\ repeated = {}
    /\ queue = <<>>
    /\ task = <<>>
    /\ collected = {}
    /\ logged = {}
    /\ outdir = <<>>
    /\ writes = <<>>

NextPipeline ==
    \/ ResolveImage
    \/ Dedup
    \/ Submit
    \/ Start
    \/ \E i \in ImagePool : Collect(i)
    \/ Finish
    \/ \E i \in ImagePool : Stage(i, PipelineEnv)

SpecPipeline == InitPipeline /\ [][NextPipeline]_vars

\* run(<<"nginx:latest">>, "image") with one worker, the start of the
\* specifications that try one stage's inputs widely
InitUnit ==
    /\ mode = "image"
    /\ inputs = <<nginx_latest>>
    /\ max_workers = 1
    /\ search_call = NoCall
    /\ runpc = "resolve"
    /\ image_names = <<>>
    /\ resolved = {}
    /\ repeated = {}
    /\ queue = <<>>
    /\ task = <<>>
    /\ collected = {}
    /\ logged = {}
    /\ outdir = <<>>
    /\ writes = <<>>

NextFilter ==
    \/ ResolveImage
    \/ Dedup
    \/ Submit
    \/ Start
    \/ \E i \in ImagePool : Collect(i)
    \/ Finish
    \/ \E i \in ImagePool : Stage(i, FilterEnv)

SpecFilter == InitUnit /\ [][NextFilter]_vars

NextParse ==
    \/ ResolveImage
    \/ Dedup
    \/ Submit
    \/ Start
    \/ \E i \in ImagePool : Collect(i)
    \/ Finish
    \/ \E i \in ImagePool : Stage(i, ParseEnv)

SpecParse == InitUnit /\ [][NextParse]_vars

NextExtract ==
    \/ ResolveImage
    \/ Dedup
    \/ Submit
    \/ Start
    \/ \E i \in ImagePool : Collect(i)
    \/ Finish
    \/ \E i \in ImagePool : Stage(i, ExtractEnv)

SpecExtract == InitUnit /\ [][NextExtract]_vars

NextScan ==
    \/ ResolveImage
    \/ Dedup
    \/ Submit
    \/ Start
    \/ \E i \in ImagePool : Collect(i)
    \/ Finish
    \/ \E i \in ImagePool : Stage(i, ScanEnv)

SpecScan == InitUnit /\ [][NextScan]_vars

\* run(<<"nginx">>, "image")
InitNginx ==
    /\ mode = "image"
    /\ inputs = <<nginx>>
    /\ max_workers \in 1..MaxWidth
    /\ search_call = NoCall
    /\ runpc = "resolve"
    /\ image_names = <<>>
    /\ resolved = {}
    /\ repeated = {}
    /\ queue = <<>>
    /\ task = <<>>
    /\ collected = {}
    /\ logged = {}
    /\ outdir = <<>>
    /\ writes = <<>>

NextNginx ==
    \/ ResolveImage
    \/ Dedup
    \/ Submit
    \/ Start
    \/ \E i \in ImagePool : Collect(i)
    \/ Finish
    \/ \E i \in ImagePool : Stage(i, NginxEnv)

SpecNginx == InitNginx /\ [][NextNginx]_vars

\* inputs of mixed mode: a bare term, a user repository, a dotted name without
\* further segment, a dot in the second segment only, a tagged name, a
\* registry-qualified name, a registry name followed by an empty segment
MixedPool ==
    {nginx, u_app, <<"a", ".", "b">>, <<"u", "/", "a", ".", "b">>, nginx_latest, registry_app, <<"a", ".", "b", "/">>}

\* run(inputs, "mixed") up to the list of unique names
InitMixed ==
    /\ mode = "mixed"
    /\ inputs \in SeqsUpTo(MixedPool, MaxInputs) \ {<<>>}
    /\ max_workers = 1
    /\ search_call = NoCall
    /\ runpc = "resolve"
    /\ image_names = <<>>
    /\ resolved = {}
    /\ repeated = {}
    /\ queue = <<>>
    /\ task = <<>>
    /\ collected = {}
    /\ logged = {}
    /\ outdir = <<>>
    /\ writes = <<>>

NextMixed ==
    \/ ResolveMixed
    \/ ResolveEnd
    \/ Dedup

SpecMixed == InitMixed /\ [][NextMixed]_vars

\* Scheduling of the threads and termination of every collaborator call: a
\* step that can be taken is eventually taken.
FairSpec == Init /\ [][Next]_vars /\ WF_vars(Next)

----------------------------------------------------------------------------
(* Properties *)

\* the stages of process_image, in the order of the code
AllStages ==
    <<"resolve", "inspect", "tempdir", "pull", "extract", "scan", "trufflehog", "gitleaks", "persist">>

\* the stages an invocation has gone through when it ends in `stage`
StagesUpTo(stage) ==
    SubSeq(AllStages, 1, CHOOSE k \in 1..Len(AllStages) : AllStages[k] = stage)

\* how many futures were created for the identifier `name`
FuturesOf(name) == IF name \in DOMAIN task THEN task[name].futures ELSE 0

\* the futures that wrote an artifact, and those that wrote `path`
Writers(path) == {writes[k][1] : k \in {j \in 1..Len(writes) : writes[j][2] = path}}

\* C1: run hands every distinct identifier that mode resolution produced to
\* process_image exactly once: no identifier ever has two futures or a future
\* started twice, only resolved identifiers are submitted, once submission is
\* over each has its future, and at the end of run each call was started once.
C1_EachIdentifierOnce ==
    /\ \A i \in DOMAIN task : task[i].arg \in resolved /\ task[i].starts <= 1
    /\ \A name \in resolved : FuturesOf(name) <= 1
    /\ runpc \in {"wait", "done"} => \A name \in resolved : FuturesOf(name) = 1
    /\ runpc = "done" => \A i \in DOMAIN task : task[i].starts = 1

\* C1 witness: a run is over whose resolved list held a name more than once
C1_Witness ==
    /\ runpc = "done"
    /\ repeated # {}
    /\ \A name \in repeated : FuturesOf(name) = 1 /\ task[name].starts = 1

\* C2: an exception of one invocation never leaves run: it is logged by the
\* handler of the as_completed loop, and when run is over every submitted
\* invocation has ended in its own outcome, having gone through exactly the
\* stages that lead to that outcome.
C2_FailureIsolated ==
    /\ runpc \notin {"unwinding", "raised"}
    /\ \A i \in collected : task[i].result.kind = "raised" => i \in logged
    /\ runpc = "done" =>
          /\ DOMAIN task = resolved
          /\ \A i \in DOMAIN task :
                /\ HasEnded(i)
                /\ task[i].result.kind \in {"path", "none", "raised"}
                /\ task[i].log = StagesUpTo(task[i].result.stage)
                /\ task[i].result.kind = "path" => i \in Writers(task[i].result.path)

\* C2 witness: run is over, one invocation raised, another wrote its artifact
C2_Witness ==
    /\ runpc = "done"
    /\ \E i, j \in DOMAIN task :
          /\ task[i].result.kind = "raised" /\ i \in logged
          /\ task[j].result.kind = "path"

\* C3: at most max_workers invocations are between their start and their
\* end; a call that is still queued has not been started.
C3_AtMostWidth ==
    /\ Cardinality(Running) <= max_workers
    /\ \A k \in 1..Len(queue) : task[queue[k]].pc = "queued" /\ task[queue[k]].starts = 0

\* C3 witness: every worker is busy and a call waits in the queue
C3_Witness == Cardinality(Running) = max_workers /\ queue # <<>>

\* every submitted invocation has ended and was started once
AllEnded == DOMAIN task = resolved /\ \A i \in DOMAIN task : HasEnded(i) /\ task[i].starts = 1

\* an ended invocation stays as it ended: it is not started again
NoRestart == [][\A i \in DOMAIN task : HasEnded(i) => task'[i] = task[i]]_vars

\* C4 as stated: run is completed ("All scans completed", line 572) only after
\* all invocations ended, every run eventually is completed, and no ended
\* invocation is started again.
C4_Original ==
    /\ [](runpc = "done" => AllEnded)
    /\ <>(runpc = "done")
    /\ NoRestart

\* C4, amended: run is completed only after every submitted invocation ended;
\* an ended invocation is never started again; once run has an image to submit
\* it eventually completes; with no image it returns at line 555 with nothing
\* submitted, never reaching the completed state.
C4_Completion ==
    /\ [](runpc = "done" => AllEnded)
    /\ [](runpc = "noimages" => (resolved = {} /\ DOMAIN task = {}))
    /\ NoRestart
    /\ (runpc = "submit") ~> (runpc = "done")

\* C4 witness: run completed with an invocation that failed
C4_Witness ==
    /\ runpc = "done"
    /\ \E i \in DOMAIN task : task[i].result.kind \in {"none", "raised"} /\ task[i].starts = 1

\* C5: after the pull failed the invocation has ended with None, pull was
\* its last stage, and it wrote no artifact: whatever the output directory
\* holds was written by another invocation.
C5_PullFailureFatal ==
    \A i \in DOMAIN task :
        task[i].heard.pull = "fail" =>
            /\ task[i].pc = "ended"
            /\ task[i].result = ReturnedNone
            /\ task[i].log = StagesUpTo("pull")
            /\ \A k \in 1..Len(writes) : writes[k][1] # i
            /\ \A path \in DOMAIN outdir : Writers(path) # {} /\ i \notin Writers(path)

\* C5 witness: an invocation whose pull failed is over
C5_Witness == \E i \in DOMAIN task : task[i].heard.pull = "fail" /\ i \in collected

\* C6: once an invocation has ended, nothing of its temporary directory exists.
C6_TempReleased == \A i \in DOMAIN task : HasEnded(i) => task[i].temp = {}

\* C6 witness: an invocation has ended by the exception of a failed write,
\* after its directory held the pull, the extraction and both detector files
C6_Witness ==
    \E i \in DOMAIN task :
        /\ HasEnded(i)
        /\ task[i].result = Raised("persist")
        /\ task[i].heard.detA.kind = "exit0"
        /\ task[i].heard.detB.report.exists

\* C7 as stated: no artifact path is written twice within one run.
C7_UniqueArtifacts ==
    \A k1, k2 \in 1..Len(writes) : writes[k1][2] = writes[k2][2] => k1 = k2

\* C8 as stated: a failed write of the artifact does not make process_image raise.
C8_WriteErrorContained ==
    \A i \in DOMAIN task :
        task[i].heard.write = "oserror" => ~(HasEnded(i) /\ task[i].result.kind = "raised")

\* C9 as stated: whatever way the inspection fails, the invocation goes on
\* with empty metadata.
C9_InspectNeverFatal ==
    \A i \in DOMAIN task :
        task[i].heard.inspect \in {"nonzero", "unparsable", "unavailable"} =>
            /\ task[i].image_info = {}
            /\ ~(HasEnded(i) /\ task[i].result = Raised("inspect"))

\* whether the answer of detector A is one of the failures of C10: non-zero
\* exit, missing binary, missing output file, or a line that is no JSON
detA_failed(out) ==
    /\ out.kind # "none"
    /\ \/ out.kind \in {"nonzero", "missing", "openfail"}
       \/ \E k \in 1..Len(out.lines) : out.lines[k].kind = "garbage"

\* the same for detector B: non-zero exit, missing binary, missing report, or
\* a report that is no JSON
detB_failed(out) ==
    /\ out.kind # "none"
    /\ \/ out.kind \in {"nonzero", "missing"}
       \/ ~out.report.exists
       \/ ~out.report.parses

\* C10 as stated: after a detector failed, its finding list is empty, the
\* invocation can end only in the persist stage, and the artifact it wrote
\* holds the file findings of the extracted tree and what the other detector
\* found.
C10_DetectorFailureEmpty ==
    \A i \in DOMAIN task :
        LET t == task[i]
            failedA == detA_failed(t.heard.detA)
            failedB == detB_failed(t.heard.detB)
        IN  /\ failedA => t.trufflehog_findings = <<>> /\ (HasEnded(i) => t.result.stage = "persist")
            /\ failedB => t.gitleaks_findings = <<>> /\ (HasEnded(i) => t.result.stage = "persist")
            /\ (failedA \/ failedB) /\ t.result.kind = "path" =>
                  LET artifact == outdir[t.result.path]
                  IN  /\ artifact.file_findings = scan(t.tree)
                      /\ ~failedA => artifact.trufflehog_findings
                                        = parse_trufflehog_results(run_trufflehog(t.heard.detA))
                      /\ ~failedB => artifact.gitleaks_findings
                                        = gitleaks_findings_of(run_gitleaks(t.heard.detB))

\* the name has a first path segment that holds a dot and is followed by a
\* further segment
registry_qualified(name) ==
    \E k \in 1..Len(name) :
        /\ name[k] = "/"
        /\ \A j \in 1..(k - 1) : name[j] # "/"
        /\ \E j \in 1..(k - 1) : name[j] = "."

\* name:tag
tagged(name, tag) == name \o <<":">> \o tag

\* C11: for a submitted name without tag and not registry-qualified, once
\* tag resolution is done the lookup was made and the invocation goes on with
\* name:latest when the page holds latest, name:<first tag> when the page is
\* non-empty without latest, name:latest when the page is empty, the answer
\* is a 404 or the lookup failed; no invocation ends in tag resolution.
C11_TagResolution ==
    \A i \in DOMAIN task :
        LET t == task[i]
            resp == t.heard.tags
            page == resp.results
        IN  /\ ~(t.pc = "ended" /\ t.result.stage = "resolve")
            /\ (~HasChar(t.arg, ":") /\ ~registry_qualified(t.arg) /\ t.log # <<>>) =>
                  /\ resp.status \in {"200", "404", "error"}
                  /\ (resp.status = "200" /\ \E k \in 1..Len(page) : page[k] = latest)
                        => t.image_name = tagged(t.arg, latest)
                  /\ (resp.status = "200" /\ page # <<>> /\ \A k \in 1..Len(page) : page[k] # latest)
                        => t.image_name = tagged(t.arg, page[1])
                  /\ (resp.status \in {"404", "error"} \/ page = <<>>)
                        => t.image_name = tagged(t.arg, latest)

\* C11 witness: nginx was resolved to nginx:latest from a page that holds
\* latest in second place, and the invocation wrote its artifact
C11_Witness ==
    \E i \in DOMAIN task :
        /\ task[i].arg = nginx
        /\ task[i].heard.tags = TagPage(<<v2, latest>>)
        /\ task[i].image_name = nginx_latest
        /\ task[i].result.kind = "path"

\* C12: for a submitted name that is registry-qualified or carries a tag the
\* tag lookup is never called, and once tag resolution is done the invocation
\* goes on with the name as it is when it has a tag, else with name:latest.
C12_NoLookup ==
    \A i \in DOMAIN task :
        LET t == task[i]
        IN  (HasChar(t.arg, ":") \/ registry_qualified(t.arg)) =>
                /\ t.heard.tags = NotAsked
                /\ t.log # <<>> =>
                      t.image_name = IF HasChar(t.arg, ":") THEN t.arg ELSE tagged(t.arg, latest)

\* C12 witness: the registry-qualified name went through the whole pipeline
\* as r.io/app:latest
C12_Witness ==
    \E i \in DOMAIN task :
        /\ task[i].arg = registry_app
        /\ task[i].image_name = tagged(registry_app, latest)
        /\ task[i].heard.tags = NotAsked
        /\ task[i].result.kind = "path"

\* c in lower case
lower_char(c) == IF c \in DOMAIN UpperToLower THEN UpperToLower[c] ELSE c

\* term occurs in raw when capitals and small letters are taken as equal
occurs_in(term, raw) ==
    \E k \in 0..(Len(raw) - Len(term)) :
        \A j \in 1..Len(term) : lower_char(raw[k + j]) = term[j]

\* the record passes the filter as C13 words it
passes(obj) ==
    /\ "DetectorType" \in DOMAIN obj
    /\ obj["DetectorType"] \in DESIRED_DETECTOR_TYPES
    /\ \A term \in UNDESIRED_TERMS : ~("Raw" \in DOMAIN obj /\ occurs_in(term, obj["Raw"]))

\* the invocations that have their detector A findings
Filtered == {i \in DOMAIN task : task[i].heard.detA.kind # "none" /\ task[i].result.stage # "trufflehog"}

\* C13: a parsed record of detector A's output has an entry in the findings
\* if and only if its DetectorType is on the allow-list and its Raw holds no
\* denylist term in any writing of capitals; the findings hold nothing else.
C13_FilterRule ==
    \A i \in Filtered :
        LET lines == task[i].heard.detA.lines
            out == task[i].trufflehog_findings
            entry_of(obj, e) ==
                /\ e.DetectorType = obj["DetectorType"]
                /\ e.Raw = (IF "Raw" \in DOMAIN obj THEN obj["Raw"] ELSE <<>>)
        IN  /\ \A k \in 1..Len(lines) :
                  lines[k].kind = "object" =>
                      (passes(lines[k].obj) <=>
                          /\ "DetectorType" \in DOMAIN lines[k].obj
                          /\ \E m \in 1..Len(out) : entry_of(lines[k].obj, out[m]))
            /\ \A m \in 1..Len(out) :
                  \E k \in 1..Len(lines) :
                      /\ lines[k].kind = "object"
                      /\ "DetectorType" \in DOMAIN lines[k].obj
                      /\ entry_of(lines[k].obj, out[m])

\* C13 witness: of a record with a clean Raw and one with TEST in capitals,
\* both of type 2, the first alone is a finding
C13_Witness ==
    \E i \in Filtered :
        /\ task[i].heard.detA.lines
              = <<ObjectLine(Rec([DetectorType |-> 2, Raw |-> real_key])),
                  ObjectLine(Rec([DetectorType |-> 2, Raw |-> test_key]))>>
        /\ Len(task[i].trufflehog_findings) = 1
        /\ task[i].trufflehog_findings[1].Raw = real_key

\* C14: the findings are the records that pass the filter, one entry per
\* record and in the order of the output's lines, each entry holding the
\* four fields SourceMetadata, DetectorName, DetectorType, Raw of its record
\* and no other.
C14_StableProjection ==
    \A i \in Filtered :
        LET out == task[i].trufflehog_findings
            kept == SelectSeq(task[i].heard.detA.lines,
                              LAMBDA l : l.kind = "object" /\ passes(l.obj))
        IN  /\ Len(out) = Len(kept)
            /\ \A m \in 1..Len(kept) :
                  LET obj == kept[m].obj
                  IN  /\ DOMAIN out[m] = {"SourceMetadata", "DetectorName", "DetectorType", "Raw"}
                      /\ out[m].SourceMetadata = obj["SourceMetadata"]
                      /\ out[m].DetectorName = obj["DetectorName"]
                      /\ out[m].DetectorType = obj["DetectorType"]
                      /\ out[m].Raw = (IF "Raw" \in DOMAIN obj THEN obj["Raw"] ELSE <<>>)

\* C14 witness: the same record twice in the output gives two findings
C14_Witness ==
    \E i \in Filtered :
        /\ Len(task[i].heard.detA.lines) = 2
        /\ task[i].heard.detA.lines[1] = task[i].heard.detA.lines[2]
        /\ Len(task[i].trufflehog_findings) = 2
        /\ task[i].result.kind = "path"

\* the invocations that have called extract_image
Extracted == {i \in DOMAIN task : task[i].heard.tar # "none"}

\* the directory holds an entry of this name
on_disk(dir, name) == \E k \in 1..Len(dir.files) : dir.files[k].name = name

\* the declared layer has a file on disk, under its digest or under the
\* digest without the sha256: prefix
layer_on_disk(dir, layer) ==
    /\ layer \notin {<<>>, NotALayer}
    /\ \/ on_disk(dir, layer)
       \/ on_disk(dir, SelectSeq(layer, LAMBDA tok : tok # sha_prefix))

\* every entry of the directory but manifest.json and version, as listed
all_but_metadata(dir) ==
    SelectSeq([k \in 1..Len(dir.files) |-> dir.files[k].name],
              LAMBDA name : name # manifest_json /\ name # version_file)

\* C15 as stated: when the directory has no manifest, an unparsable one, or
\* one none of whose layers is on disk, the attempts of extract_image are for
\* every entry but manifest.json and version, and no other.
C15_Fallback ==
    \A i \in Extracted :
        LET dir == task[i].image_dir
            layers == dir.manifest.layers
        IN  (dir.manifest.state # "ok" \/ \A k \in 1..Len(layers) : ~layer_on_disk(dir, layers[k])) =>
                attempted(task[i].attempts) = all_but_metadata(dir)

Scanned == {i \in DOMAIN task : "scan" \in Range(task[i].log)}

\* C16 as stated: for every file of the tree whose name holds "shadow", the
\* findings that name it are none when no line of it holds "$", else one
\* summary finding and one finding per line that holds "$", these carrying
\* the lines in file order.
C16_ShadowHeuristic ==
    \A i \in Scanned :
        \A k \in 1..Len(task[i].tree) :
            LET file == task[i].tree[k]
                about == SelectSeq(task[i].file_findings,
                                   LAMBDA e : e.dirs = file.dirs /\ e.name = file.name)
                content == SelectSeq(about, LAMBDA e : e.kind = "Shadow content")
                hashed == SelectSeq(file.lines, LAMBDA l : \E c \in 1..Len(l) : l[c] = "$")
            IN  Contains(file.name, shadow_name) =>
                    IF hashed = <<>> THEN about = <<>>
                    ELSE /\ Len(about) = Len(hashed) + 1
                         /\ Len(content) = Len(hashed)
                         /\ \A m \in 1..Len(hashed) : content[m].text = <<hashed[m]>>
                         /\ \E m \in 1..Len(about) : about[m].kind = "Found SHADOW file"

\* C17: when the run on "nginx" is over, the output directory holds exactly
\* one artifact, written once, for the resolved name; its file findings are
\* empty, its detector A findings are the one record that is no placeholder,
\* its detector B findings are empty. No run stops before it is over.
C17_EndToEnd ==
    /\ runpc \notin {"noimages", "unwinding", "raised"}
    /\ \A i \in DOMAIN task : task[i].result.kind \in {"pending", "path"}
    /\ runpc = "done" =>
          /\ DOMAIN task = {nginx}
          /\ Len(writes) = 1
          /\ DOMAIN outdir = {task[nginx].result.path}
          /\ LET artifact == outdir[task[nginx].result.path]
             IN  /\ artifact.image = task[nginx].image_name
                 /\ artifact.file_findings = <<>>
                 /\ artifact.trufflehog_findings
                       = <<[SourceMetadata |-> "meta1", DetectorName |-> "AWS",
                            DetectorType |-> 2, Raw |-> real_key]>>
                 /\ artifact.gitleaks_findings = <<>>

\* C17 witness: the run is over, both layers were unpacked, and the
\* invocation returned the path of its artifact
C17_Witness ==
    /\ runpc = "done"
    /\ nginx \in DOMAIN task
    /\ task[nginx].result.kind = "path"
    /\ Len(task[nginx].attempts) = 2
    /\ Len(task[nginx].tree) = 2

\* C18: the stages an invocation has done are an initial part of the fixed
\* order, each once; the stage it is at is the next of that order; persist is
\* done only after the file scan and both detectors; and every step of an
\* invocation does the stage it is at and no other.
C18_StageOrder ==
    /\ [](\A i \in DOMAIN task :
            LET t == task[i]
            IN  /\ Len(t.log) <= Len(AllStages)
                /\ t.log = SubSeq(AllStages, 1, Len(t.log))
                /\ t.pc = "queued" => t.log = <<>>
                /\ t.pc \notin {"queued", "ended"} => t.pc = AllStages[Len(t.log) + 1]
                /\ "persist" \in Range(t.log) => {"scan", "trufflehog", "gitleaks"} \subseteq Range(t.log))
    /\ [][\A i \in DOMAIN task :
            (task'[i] # task[i] /\ task[i].pc \notin {"queued", "ended"}) =>
                /\ task'[i].log = Append(task[i].log, task[i].pc)
                /\ task'[i].pc \in {"ended", AllStages[IF Len(task[i].log) + 2 <= Len(AllStages)
                                                       THEN Len(task[i].log) + 2 ELSE Len(AllStages)]}]_vars

\* C18 witness: an invocation went through all stages and wrote its artifact
C18_Witness ==
    \E i \in DOMAIN task :
        /\ task[i].log = AllStages
        /\ task[i].result.kind = "path"
        /\ task[i].file_findings # <<>>
        /\ task[i].trufflehog_findings # <<>>
        /\ task[i].gitleaks_findings # <<>>

\* the input holds the tag separator or is registry-qualified
literal_image(term) == (\E k \in 1..Len(term) : term[k] = ":") \/ registry_qualified(term)

\* C19: every step of mixed mode that takes an input either appends the input
\* itself and makes no search, when the input holds ":" or is
\* registry-qualified, or else makes one search for that input and appends
\* exactly the names found, which are none when the search failed.
C19_MixedInputs ==
    [][(mode = "mixed" /\ runpc = "resolve" /\ inputs # <<>> /\ inputs' = Tail(inputs)) =>
         LET term == Head(inputs)
         IN  IF literal_image(term)
             THEN /\ image_names' = Append(image_names, term)
                  /\ search_call' = search_call
             ELSE /\ search_call'.calls = search_call.calls + 1
                  /\ search_call'.term = term
                  /\ image_names' = image_names \o search_call'.found
                  /\ search_call'.status # "ok" => search_call'.found = <<>>]_vars

\* C19 witness: a registry-qualified input was taken as it is and the term
\* after it was searched once and gave names
C19_Witness ==
    /\ mode = "mixed" /\ runpc = "resolve" /\ inputs = <<>>
    /\ search_call.calls = 1
    /\ search_call.term = nginx
    /\ search_call.found # <<>>
    /\ image_names = <<registry_app>> \o search_call.found

\* the invocations that ran detector A and read its output file
Parsed == {i \in DOMAIN task : task[i].heard.detA.kind \notin {"none", "openfail"}}

\* C21: whatever the output file of detector A holds, reading it raises
\* nothing, and the findings are those of the file's records alone, in their
\* order: blank lines and lines that are no JSON record count for nothing.
C21_ParserTotal ==
    \A i \in Parsed :
        LET records == SelectSeq(task[i].heard.detA.lines, LAMBDA l : l.kind = "object")
            kept == SelectSeq(records, LAMBDA l : passes(l.obj))
            out == task[i].trufflehog_findings
        IN  /\ task[i].result # Raised("trufflehog")
            /\ Len(out) = Len(kept)
            /\ \A m \in 1..Len(kept) :
                  /\ out[m].DetectorType = kept[m].obj["DetectorType"]
                  /\ out[m].Raw = kept[m].obj["Raw"]
                  /\ out[m].SourceMetadata = kept[m].obj["SourceMetadata"]

\* the file a declared layer stands for: the digest without the sha256:
\* prefix when that file is on disk, else the digest as declared
file_of_layer(dir, layer) ==
    LET short == SelectSeq(layer, LAMBDA tok : tok # sha_prefix)
    IN  IF on_disk(dir, short) THEN short ELSE layer

\* C22: when the manifest parses and a declared layer has a file on disk,
\* the attempts of extract_image are for the files of the declared layers
\* that are on disk, one per such layer, and for nothing else: no layer
\* without a file, no entry the manifest does not declare.
C22_ManifestSelection ==
    \A i \in Extracted :
        LET dir == task[i].image_dir
            layers == dir.manifest.layers
            found == SelectSeq(layers, LAMBDA layer : layer_on_disk(dir, layer))
        IN  (dir.manifest.state = "ok" /\ found # <<>>) =>
                attempted(task[i].attempts) = [k \in 1..Len(found) |-> file_of_layer(dir, found[k])]

====
